---- MODULE Spec2Model ----
(***************************************************************************)
(* State-machine model of the blenderAutoBake scripts:                     *)
(*   src/blender_texture_bakingBYMaterial_automation_ue5_v003.py           *)
(*     (per-material baking: MaterialManager, TextureBaker)                *)
(*   src/blender_texture_baking_automation_ue5_v002.py                     *)
(*     (per-object baking)                                                 *)
(*                                                                         *)
(* Conventions                                                             *)
(*  - A name (material, object, image, file) is a sequence of tokens; the  *)
(*    token "_" is the underscore character, every other token stands for  *)
(*    an underscore-free piece of text.  str.split('_') and '_'.join are   *)
(*    computed on that sequence.                                           *)
(*  - A UV coordinate is kept as an integer count of 0.00005 steps, so     *)
(*    that round(x, 4) is a real (non-injective) conversion.               *)
(*  - Materials, nodes and images are objects with an integer identity;    *)
(*    0 (NoMat, NoNode, NoImage) is Python's None.                         *)
(***************************************************************************)
EXTENDS Integers, Sequences, FiniteSets, TLC

\* ------------------------------------------------------------------ bounds
\* number of objects in the scene
NumObjs == 2
\* largest number of polygons of the mesh handed to get_uv_hash on its own
MaxUVPolys == 2

NoMat == 0
NoNode == 0

\* ------------------------------------------------------- generic helpers
RECURSIVE SeqToSet(_)
SeqToSet(s) == IF s = <<>> THEN {} ELSE {Head(s)} \cup SeqToSet(Tail(s))

RECURSIVE SeqsUpTo(_, _)
\* all sequences over S of length 0..n
SeqsUpTo(S, n) ==
    IF n = 0 THEN {<<>>}
    ELSE LET shorter == SeqsUpTo(S, n - 1)
         IN  shorter \cup {Append(s, x) : s \in {t \in shorter : Len(t) = n - 1}, x \in S}

\* ------------------------------------------------------------------ names
RECURSIVE SplitUnderscore(_)
\* str.split('_'): the pieces between underscores, empty pieces kept
SplitUnderscore(name) ==
    IF name = <<>> THEN << <<>> >>
    ELSE LET rest == SplitUnderscore(Tail(name))
         IN  IF Head(name) = "_"
             THEN << <<>> >> \o rest
             ELSE << <<Head(name)>> \o Head(rest) >> \o Tail(rest)

RECURSIVE JoinUnderscore(_)
\* "_".join(parts)
JoinUnderscore(parts) ==
    IF parts = <<>> THEN <<>>
    ELSE IF Len(parts) = 1 THEN Head(parts)
    ELSE Head(parts) \o <<"_">> \o JoinUnderscore(Tail(parts))

\* ------------------------------------------------------------ UV identity
Sentinels == {"no_uv", "material_not_found", "empty_uv"}

Sentinel(k) == [kind |-> k, val |-> 0]

IsSentinel(fp) == fp.kind \in Sentinels

\* round(x, 4) on a coordinate counted in 0.00005 steps: to the nearest
\* 0.0001, a tie going to the even neighbour
Round4(r) ==
    LET q == r \div 2
    IN  IF r % 2 = 0 THEN q
        ELSE IF q % 2 = 0 THEN q ELSE q + 1

RoundUV(uv) == <<Round4(uv[1]), Round4(uv[2])>>

\* tuple comparison (u, v) < (u', v')
CoordLess(a, b) == a[1] < b[1] \/ (a[1] = b[1] /\ a[2] < b[2])

RECURSIVE InsertCoord(_, _)
InsertCoord(c, s) ==
    IF s = <<>> THEN <<c>>
    ELSE IF CoordLess(Head(s), c) THEN <<Head(s)>> \o InsertCoord(c, Tail(s))
    ELSE <<c>> \o s

RECURSIVE SortCoords(_)
\* list.sort() on a list of (u, v) tuples
SortCoords(s) == IF s = <<>> THEN <<>> ELSE InsertCoord(Head(s), SortCoords(Tail(s)))

RECURSIVE HashFrom(_, _)
HashFrom(h, s) ==
    IF s = <<>> THEN h
    ELSE HashFrom((h * 31 + Head(s)[1] * 7 + Head(s)[2] + 1) % 8191, Tail(s))

\* hash(tuple(uv_coords)): a deterministic function of the element sequence
\* (order-sensitive, not injective)
HashTuple(s) == HashFrom(17, s)

RECURSIVE RoundLoops(_)
RoundLoops(loops) ==
    IF loops = <<>> THEN <<>> ELSE <<RoundUV(Head(loops))>> \o RoundLoops(Tail(loops))

\* does the polygon sit on a slot that holds the material?
PolyUses(obj, poly, material) ==
    /\ poly.material_index < Len(obj.slots)
    /\ obj.slots[poly.material_index + 1] = material

RECURSIVE CollectCoords(_, _, _)
\* the uv_coords list after the loop over obj.data.polygons
CollectCoords(obj, polys, material) ==
    IF polys = <<>> THEN <<>>
    ELSE (IF PolyUses(obj, Head(polys), material)
          THEN RoundLoops(Head(polys).loops) ELSE <<>>)
         \o CollectCoords(obj, Tail(polys), material)

\* get_uv_hash without the sort: the coordinates stay in traversal order
NoSort(coords) == coords

\* uv_coords.sort() of get_uv_hash
SortStep(coords) == SortCoords(coords)

\* the outcome of a call that raised instead of returning
RaisedError == [kind |-> "raised", val |-> 0]

Raised(uv_hash) == uv_hash.kind = "raised"

\* uv_layers.active.data[loop_idx] raises IndexError: the layer's data is
\* empty (the mesh is in edit mode) and a polygon of the material is reached
ReadRaises(obj, material) ==
    ~obj.uvData /\ \E i \in 1..Len(obj.polys) : PolyUses(obj, obj.polys[i], material)

\* get_uv_hash with the two early returns in the other order
get_uv_hash_slots_first(obj, material) ==
    IF material \notin SeqToSet(obj.slots) THEN Sentinel("material_not_found")
    ELSE IF ~obj.hasUV THEN Sentinel("no_uv")
    ELSE IF ReadRaises(obj, material) THEN RaisedError
    ELSE LET uv_coords == SortStep(CollectCoords(obj, obj.polys, material))
         IN  IF uv_coords # <<>>
             THEN [kind |-> "hash", val |-> HashTuple(uv_coords)]
             ELSE Sentinel("empty_uv")

\* the value get_uv_hash returns, or RaisedError when it raises
get_uv_hash(obj, material) ==
    IF ~obj.hasUV THEN Sentinel("no_uv")
    ELSE IF material \notin SeqToSet(obj.slots) THEN Sentinel("material_not_found")
    ELSE IF ReadRaises(obj, material) THEN RaisedError
    ELSE LET uv_coords == SortStep(CollectCoords(obj, obj.polys, material))
         IN  IF uv_coords # <<>>
             THEN [kind |-> "hash", val |-> HashTuple(uv_coords)]
             ELSE Sentinel("empty_uv")

\* ---------------------------------------------------------- shading graph
\* A graph is [nodes, links, active, fresh]: nodes in collection order, each
\* [id, type, name, val, image]; links in collection order, each
\* [fn, fs, tn, ts] (from node, from socket, to node, to socket); active is
\* nodes.active; fresh is the identity the next created node gets.
\* A node name is <<base, n>>: n > 0 is the ".00n" suffix that keeps names
\* unique.  val is the Metallic input's default_value of a principled node
\* and the output's default_value of a value node.
NodeNamed(g, name) == {i \in 1..Len(g.nodes) : g.nodes[i].name = name}

HasNode(g, id) == \E i \in 1..Len(g.nodes) : g.nodes[i].id = id

NodeById(g, id) == g.nodes[CHOOSE i \in 1..Len(g.nodes) : g.nodes[i].id = id]

RECURSIVE UniqueSuffix(_, _, _)
UniqueSuffix(g, base, n) ==
    IF NodeNamed(g, <<base, n>>) = {} THEN n ELSE UniqueSuffix(g, base, n + 1)

DefaultName(type) ==
    CASE type = "EMISSION" -> "Emission"
      [] type = "OUTPUT_MATERIAL" -> "Material Output"
      [] type = "BSDF_PRINCIPLED" -> "Principled BSDF"
      [] type = "VALUE" -> "Value"
      [] OTHER -> "Image Texture"

\* nodes.new(type): the node is appended and gets a unique default name
NodesNew(g, type) ==
    [g EXCEPT !.nodes = Append(@, [id |-> g.fresh, type |-> type,
                                   name |-> <<DefaultName(type),
                                              UniqueSuffix(g, DefaultName(type), 0)>>,
                                   val |-> 0, image |-> 0]),
              !.fresh = @ + 1]

\* nodes.get(name): the node of that name, or None
NodesGet(g, name) ==
    IF NodeNamed(g, name) = {} THEN NoNode
    ELSE g.nodes[CHOOSE i \in NodeNamed(g, name) : TRUE].id

RECURSIVE DropNode(_, _)
DropNode(nodes, id) ==
    IF nodes = <<>> THEN <<>>
    ELSE IF Head(nodes).id = id THEN DropNode(Tail(nodes), id)
    ELSE <<Head(nodes)>> \o DropNode(Tail(nodes), id)

RECURSIVE DropLinks(_, _)
\* the links that do not touch the node
DropLinks(links, id) ==
    IF links = <<>> THEN <<>>
    ELSE IF Head(links).fn = id \/ Head(links).tn = id THEN DropLinks(Tail(links), id)
    ELSE <<Head(links)>> \o DropLinks(Tail(links), id)

\* nodes.remove(node): the node goes, and every link attached to it
NodesRemove(g, id) ==
    [g EXCEPT !.nodes = DropNode(@, id),
              !.links = DropLinks(@, id),
              !.active = IF @ = id THEN NoNode ELSE @]

RECURSIVE DropInput(_, _, _)
\* the links that do not end in the input socket
DropInput(links, tn, ts) ==
    IF links = <<>> THEN <<>>
    ELSE IF Head(links).tn = tn /\ Head(links).ts = ts THEN DropInput(Tail(links), tn, ts)
    ELSE <<Head(links)>> \o DropInput(Tail(links), tn, ts)

\* links.new(from_socket, to_socket): an input socket takes one link, so the
\* new link replaces the one that ends there; a socket whose node is no
\* longer in the tree is not found and no link is made.
LinksNew(g, l) ==
    IF ~HasNode(g, l.fn) \/ ~HasNode(g, l.tn) THEN g
    ELSE [g EXCEPT !.links = Append(DropInput(@, l.tn, l.ts), l)]

Link(fn, fs, tn, ts) == [fn |-> fn, fs |-> fs, tn |-> tn, ts |-> ts]

\* the first node of a type in collection order, or None
FirstOfType(g, type) ==
    LET S == {i \in 1..Len(g.nodes) : g.nodes[i].type = type}
    IN  IF S = {} THEN NoNode
        ELSE g.nodes[CHOOSE i \in S : \A j \in S : i <= j].id

\* metallic_socket.links[0], as a set of at most one link
MetallicLinks(g, principled) ==
    {i \in 1..Len(g.links) : g.links[i].tn = principled /\ g.links[i].ts = "Metallic"}

\* setup_bake_node that leaves an existing Bake_Target node in place
setup_bake_node_keeps_old(g) ==
    LET g2 == NodesNew(g, "TEX_IMAGE")
        bake_node == g.fresh
    IN  [g2 EXCEPT !.nodes[Len(g2.nodes)].name = <<"Bake_Target", 0>>,
                   !.active = bake_node]

\* MaterialManager.setup_bake_node
setup_bake_node(g) ==
    LET existing == NodesGet(g, <<"Bake_Target", 0>>)
        g1 == IF existing # NoNode THEN NodesRemove(g, existing) ELSE g
        g2 == NodesNew(g1, "TEX_IMAGE")
        bake_node == g1.fresh
    IN  [g2 EXCEPT !.nodes[Len(g2.nodes)].name = <<"Bake_Target", 0>>,
                   !.active = bake_node]

\* bake_node.image = image
SetNodeImage(g, id, image) ==
    [g EXCEPT !.nodes = [i \in 1..Len(@) |->
                            IF @[i].id = id THEN [@[i] EXCEPT !.image = image] ELSE @[i]]]

\* output.inputs['Surface'] raises KeyError: nodes.get('Material Output')
\* found a node that is not an output node
RerouteRaises(g) ==
    LET found == NodesGet(g, <<"Material Output", 0>>)
    IN  found # NoNode /\ NodeById(g, found).type # "OUTPUT_MATERIAL"

\* setup_metallic_nodes without the is_linked test: always a value node
setup_metallic_nodes_value_only(g) ==
    LET ge == NodesNew(g, "EMISSION")
        emit == g.fresh
        found == NodesGet(ge, <<"Material Output", 0>>)
        go == IF found = NoNode THEN NodesNew(ge, "OUTPUT_MATERIAL") ELSE ge
        output == IF found = NoNode THEN ge.fresh ELSE found
        first == FirstOfType(go, "BSDF_PRINCIPLED")
        gp == IF first = NoNode THEN NodesNew(go, "BSDF_PRINCIPLED") ELSE go
        principled == IF first = NoNode THEN go.fresh ELSE first
        g1 == NodesNew(gp, "VALUE")
        value == gp.fresh
        g2 == [g1 EXCEPT !.nodes[Len(g1.nodes)].val = NodeById(gp, principled).val]
        gv == LinksNew(g2, Link(value, "Value", emit, "Strength"))
    IN  IF RerouteRaises(g) THEN gv
        ELSE LinksNew(gv, Link(emit, "Emission", output, "Surface"))

\* MaterialManager.setup_metallic_nodes: the graph it leaves, also when its
\* last statement raises (RerouteRaises); the snapshot it returns is the link
\* list of the graph it was given (original_links)
setup_metallic_nodes(g) ==
    LET ge == NodesNew(g, "EMISSION")
        emit == g.fresh
        found == NodesGet(ge, <<"Material Output", 0>>)
        go == IF found = NoNode THEN NodesNew(ge, "OUTPUT_MATERIAL") ELSE ge
        output == IF found = NoNode THEN ge.fresh ELSE found
        first == FirstOfType(go, "BSDF_PRINCIPLED")
        gp == IF first = NoNode THEN NodesNew(go, "BSDF_PRINCIPLED") ELSE go
        principled == IF first = NoNode THEN go.fresh ELSE first
        ml == MetallicLinks(gp, principled)
        gv == IF ml # {}
              THEN LET l == gp.links[CHOOSE i \in ml : TRUE]
                   IN  LinksNew(gp, Link(l.fn, l.fs, emit, "Strength"))
              ELSE LET g1 == NodesNew(gp, "VALUE")
                       value == gp.fresh
                       g2 == [g1 EXCEPT !.nodes[Len(g1.nodes)].val =
                                            NodeById(gp, principled).val]
                   IN  LinksNew(g2, Link(value, "Value", emit, "Strength"))
    IN  IF RerouteRaises(g) THEN gv
        ELSE LinksNew(gv, Link(emit, "Emission", output, "Surface"))

IsTemporary(node) == node.type \in {"EMISSION", "VALUE"}

RECURSIVE RemoveWalk(_, _, _)
\* "for node in nodes: if ...: nodes.remove(node)" walked by position: after a
\* removal the collection has closed up (step = 0) or the walk has moved on
\* regardless (step = 1) and passes over the node that followed
RemoveWalk(g, i, step) ==
    IF i > Len(g.nodes) THEN g
    ELSE IF IsTemporary(g.nodes[i])
         THEN RemoveWalk(NodesRemove(g, g.nodes[i].id), i + step, step)
         ELSE RemoveWalk(g, i + 1, step)

RECURSIVE RelinkAll(_, _)
RelinkAll(g, original_links) ==
    IF original_links = <<>> THEN g
    ELSE RelinkAll(LinksNew(g, Head(original_links)), Tail(original_links))

\* MaterialManager.restore_material_links.  The collection is changed while
\* it is iterated: step \in {0, 1} is the outcome of that iteration.
restore_material_links(g, original_links, step) ==
    RelinkAll(RemoveWalk(g, 1, step), original_links)

\* the truth value Python gives original_links in "if original_links:"
\* (None and the empty list are both false)
Truthy(original_links) == original_links.taken /\ original_links.links # <<>>

NodeSet(g) == SeqToSet(g.nodes)

LinkSet(g) == SeqToSet(g.links)

\* ------------------------------------------------------------------ state
VARIABLES
    objects,         \* bpy.context.scene.objects, in scene order
    materials,       \* bpy.data.materials: the identities of the materials
    matName,         \* material.name of every material
    graph,           \* material.node_tree of every material
    filepath,        \* bpy.data.filepath is set (the file was saved)
    images,          \* bpy.data.images: a set of [id, name]
    selected,        \* the selected objects (positions in objects)
    active,          \* view_layer.objects.active (0: none)
    pc,              \* the statement the run is at
    material_usage,  \* duplicate_shared_materials: the dict, in insertion order
    grp,             \* duplicate_shared_materials: position of pass 2
    matList,         \* execute: materials
    matIdx,          \* execute: position in materials
    success_count,   \* execute: success_count
    material_path,   \* bake_material: the folder of the material
    uv_groups,       \* bake_material: the dict, in insertion order
    ug,              \* bake_material: position in uv_groups
    chan,            \* _bake_all_maps: position in BAKE_TYPES
    bake_node,       \* _bake_all_maps: the Bake_Target node
    map_name,        \* _bake_all_maps: the name of the channel's map
    image,           \* _bake_all_maps: the image of the channel
    original_links,  \* _bake_all_maps: [taken, links]; taken = FALSE is None
    raised,          \* _bake_all_maps: an exception is in flight
    folders,         \* file system: the material folders made
    saveLog,         \* file system: the files written, in order
    bakeLog,         \* renderer: the bake calls, in order
    status,          \* per material: how far bake_material got
    scene0,          \* the scene as it was when the run began
    fps0,            \* the usages of scene0, each with its UV hash
    preGraph,        \* the material's graph as setup_metallic_nodes found it
    reroutes,        \* calls of setup_metallic_nodes in this _bake_all_maps
    restores,        \* calls of restore_material_links in this _bake_all_maps
    uvOut            \* results of get_uv_hash called on its own

vars == <<objects, materials, matName, graph, filepath, images, selected, active,
          pc, material_usage, grp, matList, matIdx, success_count, material_path,
          uv_groups, ug, chan, bake_node, map_name, image, original_links, raised, folders, saveLog,
          bakeLog, status, scene0, fps0, preGraph, reroutes, restores, uvOut>>

sceneVars == <<objects, materials, matName, graph>>
resolveVars == <<material_usage, grp>>
runVars == <<matList, matIdx, success_count>>
matVars == <<material_path, uv_groups, ug>>
chanVars == <<chan, bake_node, map_name, image, original_links, raised>>
worldVars == <<filepath, images, selected, active, folders, saveLog, bakeLog>>
ghostVars == <<scene0, fps0, preGraph, reroutes, restores, uvOut>>

\* BakeConstants.BAKE_TYPES, in the dict's order
BAKE_TYPES ==
    << [type |-> "DIFFUSE", suffix |-> "diffuse"],
       [type |-> "NORMAL", suffix |-> "normal"],
       [type |-> "ROUGHNESS", suffix |-> "roughness"],
       [type |-> "AO", suffix |-> "ao"],
       [type |-> "EMIT", suffix |-> "metallic"] >>

\* the materials the scene starts with, and their names
OrigMats == {1, 2}

OrigName(m) == IF m = 1 THEN <<"M">> ELSE <<"N">>

\* the names of the objects, in scene order
ObjName(i) == <<(<<"A", "B", "C", "D", "E">>)[i]>>

EmptyGraph == [nodes |-> <<>>, links |-> <<>>, active |-> NoNode, fresh |-> 1]

NoLinks == [taken |-> FALSE, links |-> <<>>]

\* ----------------------------------------------------------- the inputs
\* A scene object is [type, hasUV, uvData, slots, polys]: slots holds the
\* material of every material slot (NoMat: an empty slot), polys the polygons
\* in obj.data.polygons order, each [material_index, loops] with loops the raw
\* (u, v) of the polygon's loops in loop order; uvData is false when the
\* active UV layer's data cannot be indexed (a mesh left in edit mode).
Tri(a) == << <<0, 0>>, <<a, 0>>, <<0, a>> >>

\* the sizes of the triangles of the scenes: 0 and 1 round to the same
\* coordinates, Wide to others
Wide == Tri(2)

TriChoices == {Tri(0), Tri(1), Wide}

Poly(i, loops) == [material_index |-> i, loops |-> loops]

Mesh(hasUV, slots, polys) ==
    [type |-> "MESH", hasUV |-> hasUV, uvData |-> TRUE, slots |-> slots, polys |-> polys]

\* a mesh in edit mode
EditMesh(slots, polys) ==
    [type |-> "MESH", hasUV |-> TRUE, uvData |-> FALSE, slots |-> slots, polys |-> polys]

NonMesh ==
    [type |-> "EMPTY", hasUV |-> FALSE, uvData |-> TRUE, slots |-> <<>>, polys |-> <<>>]

\* the objects a scene of the full run is made of
MeshChoices ==
    {NonMesh, Mesh(FALSE, <<1>>, <<Poly(0, Wide)>>),
     Mesh(TRUE, <<NoMat, 2>>, <<Poly(1, Wide)>>),
     Mesh(TRUE, <<1, 2>>, <<Poly(1, Wide)>>)}
    \cup {Mesh(TRUE, <<1>>, <<Poly(0, t)>>) : t \in TriChoices}

\* the objects of the scenes the runs on any node tree are made of
FewMeshChoices ==
    {Mesh(FALSE, <<1>>, <<Poly(0, Wide)>>),
     Mesh(TRUE, <<1>>, <<Poly(0, Tri(0))>>),
     Mesh(TRUE, <<1>>, <<Poly(0, Wide)>>)}

\* the objects of the scenes that hold meshes left in edit mode
EditModeChoices ==
    {Mesh(TRUE, <<1>>, <<Poly(0, Wide)>>),
     Mesh(TRUE, <<1, 1>>, <<Poly(0, Wide)>>),
     Mesh(TRUE, <<1, 2>>, <<Poly(1, Wide)>>),
     EditMesh(<<1>>, <<Poly(0, Wide)>>),
     EditMesh(<<1, 2>>, <<Poly(1, Wide)>>)}

\* the meshes get_uv_hash is called on by itself: up to two slots, up to
\* MaxUVPolys triangles over two UV points
UVPoints == {<<1, 0>>, <<3, 2>>}

UVTris == {<<p, q, r>> : p \in UVPoints, q \in UVPoints, r \in UVPoints}

UVMeshChoices ==
    {Mesh(h, slots, polys) :
        h \in BOOLEAN,
        slots \in {<<>>, <<1>>, <<2>>, <<1, 2>>, <<2, 1>>, <<NoMat, 1>>},
        polys \in SeqsUpTo({Poly(i, t) : i \in 0..2, t \in UVTris}, MaxUVPolys)}

Node(id, type, name, val) ==
    [id |-> id, type |-> type, name |-> <<name, 0>>, val |-> val, image |-> 0]

RECURSIVE Pick(_, _)
\* the members of a sequence of [on, item] that are on, in order
Pick(s, dummy) ==
    IF s = <<>> THEN <<>>
    ELSE (IF Head(s).on THEN <<Head(s).item>> ELSE <<>>) \o Pick(Tail(s), dummy)

\* The node trees an artist may have left in a material: a principled node
\* (1), an output node (2) under its default name or renamed, a value node
\* (3) and an emission node (4), each present or not, and any of the links
\* principled -> Surface, emission -> Surface, value -> Metallic,
\* value -> Strength that the nodes allow.
ArtistGraph(p, o, oname, v, e, lps, les, lvm, lvs) ==
    [nodes |-> Pick(<< [on |-> p, item |-> Node(1, "BSDF_PRINCIPLED", "Principled BSDF", 1)],
                       [on |-> o, item |-> Node(2, "OUTPUT_MATERIAL", oname, 0)],
                       [on |-> v, item |-> Node(3, "VALUE", "Value", 1)],
                       [on |-> e, item |-> Node(4, "EMISSION", "Emission", 0)] >>, 0),
     links |-> Pick(<< [on |-> lps, item |-> Link(1, "BSDF", 2, "Surface")],
                       [on |-> les, item |-> Link(4, "Emission", 2, "Surface")],
                       [on |-> lvm, item |-> Link(3, "Value", 1, "Metallic")],
                       [on |-> lvs, item |-> Link(3, "Value", 4, "Strength")] >>, 0),
     active |-> NoNode,
     fresh |-> 5]

AllGraphs ==
    {ArtistGraph(p, o, oname, v, e, lps, les, lvm, lvs) :
        p \in BOOLEAN, o \in BOOLEAN, oname \in {"Material Output", "Output"},
        v \in BOOLEAN, e \in BOOLEAN,
        lps \in BOOLEAN, les \in BOOLEAN, lvm \in BOOLEAN, lvs \in BOOLEAN}

\* the links need their nodes, and Surface takes one link
WellFormed(g) ==
    /\ \A i \in 1..Len(g.links) : HasNode(g, g.links[i].fn) /\ HasNode(g, g.links[i].tn)
    /\ \A i, j \in 1..Len(g.links) :
          (g.links[i].tn = g.links[j].tn /\ g.links[i].ts = g.links[j].ts) => i = j

GraphChoices == {g \in AllGraphs : WellFormed(g)}

DefaultGraph ==
    ArtistGraph(TRUE, TRUE, "Material Output", FALSE, FALSE, TRUE, FALSE, FALSE, FALSE)

\* ------------------------------------------------ duplicate_shared_materials
RECURSIVE SlotUsages(_, _, _)
\* the (obj, slot) pairs of one object whose slot holds a material, from slot k
SlotUsages(objs, o, k) ==
    IF k > Len(objs[o].slots) THEN <<>>
    ELSE (IF objs[o].slots[k] # NoMat THEN << [obj |-> o, slot |-> k] >> ELSE <<>>)
         \o SlotUsages(objs, o, k + 1)

RECURSIVE SceneUsages(_, _)
\* the (obj, slot) pairs the two loops of pass 1 visit, in order, from object o
SceneUsages(objs, o) ==
    IF o > Len(objs) THEN <<>>
    ELSE (IF objs[o].type = "MESH" THEN SlotUsages(objs, o, 1) ELSE <<>>)
         \o SceneUsages(objs, o + 1)

\* KeyIndex on the material alone: one group per material
KeyIndexByMaterial(usage, material, uv_hash) ==
    {i \in 1..Len(usage) : usage[i].material = material}

KeyIndex(usage, material, uv_hash) ==
    {i \in 1..Len(usage) : usage[i].material = material /\ usage[i].uv_hash = uv_hash}

\* material_usage[usage_key].append((obj, slot)), the key made when missing
AddUsage(usage, material, uv_hash, u) ==
    IF KeyIndex(usage, material, uv_hash) = {}
    THEN Append(usage, [material |-> material, uv_hash |-> uv_hash, usages |-> <<u>>])
    ELSE LET i == CHOOSE k \in KeyIndex(usage, material, uv_hash) : TRUE
         IN  [usage EXCEPT ![i].usages = Append(@, u)]

\* Caught that lets a call that raised go on as if it had returned
CaughtNever(uv_hash) == FALSE

\* the try ... except ... continue around a call of get_uv_hash
Caught(uv_hash) == Raised(uv_hash)

RECURSIVE Pass1(_, _, _)
\* pass 1: group the usages by (material, UV hash); a usage whose hash raises
\* is passed over
Pass1(objs, us, usage) ==
    IF us = <<>> THEN usage
    ELSE LET u == Head(us)
             m == objs[u.obj].slots[u.slot]
             uv_hash == get_uv_hash(objs[u.obj], m)
         IN  IF Caught(uv_hash) THEN Pass1(objs, Tail(us), usage)
             ELSE Pass1(objs, Tail(us), AddUsage(usage, m, uv_hash, u))

\* SplitNeeded without the comparison: every other usage gets a copy
SplitAlways(current_uv_hash, uv_hash) == ~IsSentinel(current_uv_hash)

\* the test that sends a usage of a group to a copy of the material
SplitNeeded(current_uv_hash, uv_hash) ==
    current_uv_hash # uv_hash /\ ~IsSentinel(current_uv_hash)

\* GroupShared without the sentinel test: any group of two is worked on
GroupSharedAnyHash(entry) == Len(entry.usages) > 1

\* the test that lets pass 2 work on a group
GroupShared(entry) == Len(entry.usages) > 1 /\ ~IsSentinel(entry.uv_hash)

MasterName(name, first_obj) == name \o <<"_", "MASTER", "_">> \o ObjName(first_obj)

InstanceName(name, obj) == name \o <<"_", "INSTANCE", "_">> \o ObjName(obj)

RECURSIVE SplitOthers(_, _, _, _)
\* "for obj, slot in usages[1:]" of pass 2, on the scene sc =
\* [objects, materials, matName, graph]
SplitOthers(sc, original_material, uv_hash, us) ==
    IF us = <<>> THEN sc
    ELSE LET u == Head(us)
             current_uv_hash ==
                 get_uv_hash(sc.objects[u.obj], sc.objects[u.obj].slots[u.slot])
             new_material == 1 + Cardinality(sc.materials)
             next ==
                 IF Caught(current_uv_hash) THEN sc
                 ELSE IF SplitNeeded(current_uv_hash, uv_hash)
                 THEN [objects |-> [sc.objects EXCEPT ![u.obj].slots[u.slot] = new_material],
                       materials |-> sc.materials \cup {new_material},
                       matName |-> [sc.matName EXCEPT ![new_material] =
                                       InstanceName(sc.matName[original_material], u.obj)],
                       graph |-> [sc.graph EXCEPT ![new_material] =
                                       sc.graph[original_material]]]
                 ELSE sc
         IN  SplitOthers(next, original_material, uv_hash, Tail(us))

\* the body of pass 2 for one group that is shared
ResolveShared(sc, entry) ==
    LET first_obj == entry.usages[1].obj
        renamed == [sc EXCEPT !.matName[entry.material] = MasterName(@, first_obj)]
    IN  SplitOthers(renamed, entry.material, entry.uv_hash, Tail(entry.usages))

RECURSIVE Pass2(_, _, _)
\* pass 2 from group g on: the scene duplicate_shared_materials leaves
Pass2(sc, usage, g) ==
    IF g > Len(usage) THEN sc
    ELSE Pass2(IF GroupShared(usage[g]) THEN ResolveShared(sc, usage[g]) ELSE sc,
               usage, g + 1)

\* duplicate_shared_materials as a whole, on the scene sc
duplicate_shared_materials(sc) ==
    Pass2(sc, Pass1(sc.objects, SceneUsages(sc.objects, 1), <<>>), 1)

\* material identities: the originals, and room for one copy per usage
MatIds == 1..(Cardinality(OrigMats) + 2 * NumObjs)

\* ------------------------------------------------------------------- Init
Scene(objs, g1, saved, at) ==
    /\ objects = objs
    /\ materials = OrigMats
    /\ matName = [m \in MatIds |-> IF m \in OrigMats THEN OrigName(m) ELSE <<>>]
    /\ graph = [m \in MatIds |-> IF m = 1 THEN g1
                                 ELSE IF m \in OrigMats THEN DefaultGraph
                                 ELSE EmptyGraph]
    /\ filepath = saved
    /\ images = [all |-> {}, fresh |-> 1]
    /\ selected = 1..Len(objs)
    /\ active = IF objs = <<>> THEN 0 ELSE 1
    /\ pc = at
    /\ material_usage = <<>>
    /\ grp = 0
    /\ matList = <<>>
    /\ matIdx = 0
    /\ success_count = 0
    /\ material_path = <<>>
    /\ uv_groups = <<>>
    /\ ug = 0
    /\ chan = 0
    /\ bake_node = NoNode
    /\ map_name = <<>>
    /\ image = 0
    /\ original_links = NoLinks
    /\ raised = FALSE
    /\ folders = {}
    /\ saveLog = <<>>
    /\ bakeLog = <<>>
    /\ status = [m \in MatIds |-> "None"]
    /\ scene0 = objs
    /\ fps0 = {[u |-> u, fp |-> get_uv_hash(objs[u.obj], objs[u.obj].slots[u.slot])] :
                  u \in SeqToSet(SceneUsages(objs, 1))}
    /\ preGraph = EmptyGraph
    /\ reroutes = 0
    /\ restores = 0
    /\ uvOut = [m \in OrigMats |-> [kind |-> "uncalled", val |-> 0]]

\* a run of execute() on a scene of NumObjs objects whose materials have the
\* node tree of a new material
Init ==
    \E objs \in [1..NumObjs -> MeshChoices], saved \in BOOLEAN :
        Scene(objs, DefaultGraph, saved, "resolve")

\* a run of execute() on a material with any node tree
InitGraph ==
    \E objs \in [1..NumObjs -> FewMeshChoices], g1 \in GraphChoices,
       saved \in BOOLEAN :
        Scene(objs, g1, saved, "resolve")

\* a run of execute() on a scene where meshes may be in edit mode
InitEditMode ==
    \E objs \in [1..NumObjs -> EditModeChoices], saved \in BOOLEAN :
        Scene(objs, DefaultGraph, saved, "resolve")

\* ---------------------------------------------------------------- execute
CurMat == matList[matIdx]

SceneRec == [objects |-> objects, materials |-> materials,
             matName |-> matName, graph |-> graph]

\* duplicate_shared_materials, pass 1
ResolvePass1 ==
    /\ pc = "resolve"
    /\ material_usage' = Pass1(objects, SceneUsages(objects, 1), <<>>)
    /\ grp' = 1
    /\ pc' = "resolve2"
    /\ UNCHANGED <<sceneVars, runVars, matVars, chanVars, worldVars, status, ghostVars>>

\* duplicate_shared_materials, pass 2: one turn of the loop over the groups
ResolveGroup ==
    /\ pc = "resolve2"
    /\ grp <= Len(material_usage)
    /\ LET entry == material_usage[grp]
           sc == IF GroupShared(entry) THEN ResolveShared(SceneRec, entry) ELSE SceneRec
       IN  /\ objects' = sc.objects
           /\ materials' = sc.materials
           /\ matName' = sc.matName
           /\ graph' = sc.graph
    /\ grp' = grp + 1
    /\ UNCHANGED <<pc, material_usage, runVars, matVars, chanVars, worldVars, status,
                   ghostVars>>

\* GetOutputPath without the test of bpy.data.filepath
GetOutputPathUnchecked ==
    /\ pc = "resolve2"
    /\ grp > Len(material_usage)
    /\ pc' = "enumerate"
    /\ UNCHANGED <<sceneVars, resolveVars, runVars, matVars, chanVars, worldVars, status,
                   ghostVars>>

\* duplicate_shared_materials returns; FileManager.get_output_path
GetOutputPath ==
    /\ pc = "resolve2"
    /\ grp > Len(material_usage)
    /\ pc' = IF filepath THEN "enumerate" ELSE "error"
    /\ UNCHANGED <<sceneVars, resolveVars, runVars, matVars, chanVars, worldVars, status,
                   ghostVars>>

\* MaterialManager.get_all_materials: the set of the slots' materials
get_all_materials(objs) ==
    UNION {{objs[o].slots[k] : k \in 1..Len(objs[o].slots)} :
              o \in {i \in 1..Len(objs) : objs[i].type = "MESH"}} \ {NoMat}

\* Orders without the set: a material may come up more than once
OrdersWithRepeats(S) == [1..Cardinality(S) -> S]

\* the orders list(set) may give
Orders(S) == {q \in [1..Cardinality(S) -> S] : \A i, j \in 1..Cardinality(S) :
                                                    q[i] = q[j] => i = j}

\* execute: materials = get_all_materials(), and the check that follows
Enumerate ==
    /\ pc = "enumerate"
    /\ \E q \in Orders(get_all_materials(objects)) :
          /\ matList' = q
          /\ status' = [m \in MatIds |-> IF m \in get_all_materials(objects)
                                         THEN "Pending" ELSE "None"]
    /\ matIdx' = 1
    /\ success_count' = 0
    /\ pc' = IF get_all_materials(objects) = {} THEN "error" ELSE "material"
    /\ UNCHANGED <<sceneVars, resolveVars, matVars, chanVars, worldVars, ghostVars>>

\* ---------------------------------------------------------- bake_material
UsesMaterial(obj, material) ==
    obj.type = "MESH" /\ \E k \in 1..Len(obj.slots) : obj.slots[k] = material

\* GroupIndex that never finds the group: one group per object
NoGroupFound(groups, uv_hash) == {}

GroupIndex(groups, uv_hash) == {i \in 1..Len(groups) : groups[i].uv_hash = uv_hash}

\* Groupable without the sentinel test: every object is grouped
GroupableAlways(uv_hash) == TRUE

\* the test that keeps an object out of the UV groups
Groupable(uv_hash) == ~IsSentinel(uv_hash)

RECURSIVE GroupUVs(_, _, _, _)
\* the loop that fills uv_groups, from object o
GroupUVs(objs, material, o, groups) ==
    IF o > Len(objs) THEN groups
    ELSE IF ~UsesMaterial(objs[o], material) THEN GroupUVs(objs, material, o + 1, groups)
    ELSE LET uv_hash == get_uv_hash(objs[o], material)
             at == GroupIndex(groups, uv_hash)
             next ==
                 IF ~Groupable(uv_hash) THEN groups
                 ELSE IF at = {}
                 THEN Append(groups, [uv_hash |-> uv_hash, objs |-> <<o>>])
                 ELSE [groups EXCEPT ![CHOOSE i \in at : TRUE].objs = Append(@, o)]
         IN  GroupUVs(objs, material, o + 1, next)

\* execute: the loop over materials takes the next one; bake_material makes
\* the material's folder
BakeMaterial ==
    /\ pc = "material"
    /\ matIdx <= Len(matList)
    /\ material_path' = matName[CurMat]
    /\ folders' = folders \cup {matName[CurMat]}
    /\ status' = [status EXCEPT ![CurMat] = "GroupingUVs"]
    /\ pc' = "grouping"
    /\ UNCHANGED <<sceneVars, resolveVars, runVars, uv_groups, ug, chanVars, filepath,
                   images, selected, active, saveLog, bakeLog, ghostVars>>

\* get_uv_hash raises for an object of the grouping loop
GroupingRaises(objs, material) ==
    \E o \in 1..Len(objs) :
        UsesMaterial(objs[o], material) /\ Raised(get_uv_hash(objs[o], material))

\* bake_material: group the objects by UV hash; return False without a group,
\* and from the except clause when get_uv_hash raised
GroupObjects ==
    /\ pc = "grouping"
    /\ LET failed == GroupingRaises(objects, CurMat)
           groups == IF failed THEN <<>> ELSE GroupUVs(objects, CurMat, 1, <<>>)
       IN  /\ uv_groups' = groups
           /\ ug' = 1
           /\ IF groups = <<>>
              THEN /\ status' = [status EXCEPT ![CurMat] = "Failed"]
                   /\ matIdx' = matIdx + 1
                   /\ pc' = "material"
              ELSE /\ status' = [status EXCEPT ![CurMat] = "BakingChannels"]
                   /\ matIdx' = matIdx
                   /\ pc' = "group"
    /\ UNCHANGED <<sceneVars, resolveVars, matList, success_count, material_path,
                   chanVars, worldVars, ghostVars>>

\* SelectGroup without select_all(action='DESELECT')
SelectGroupKeepsSelection ==
    /\ pc = "group"
    /\ ug <= Len(uv_groups)
    /\ selected' = selected \cup {uv_groups[ug].objs[1]}
    /\ active' = uv_groups[ug].objs[1]
    /\ graph' = [graph EXCEPT ![CurMat] = setup_bake_node(@)]
    /\ bake_node' = graph[CurMat].fresh
    /\ chan' = 1
    /\ pc' = "channel"
    /\ UNCHANGED <<objects, materials, matName, resolveVars, runVars, matVars, map_name,
                   image, original_links, raised, filepath, images, folders, saveLog,
                   bakeLog, status, ghostVars>>

\* bake_material: one turn of the loop over the UV groups, up to the call of
\* _bake_all_maps: select the group's first object, set up the bake node
SelectGroup ==
    /\ pc = "group"
    /\ ug <= Len(uv_groups)
    /\ selected' = {uv_groups[ug].objs[1]}
    /\ active' = uv_groups[ug].objs[1]
    /\ graph' = [graph EXCEPT ![CurMat] = setup_bake_node(@)]
    /\ bake_node' = graph[CurMat].fresh
    /\ chan' = 1
    /\ pc' = "channel"
    /\ UNCHANGED <<objects, materials, matName, resolveVars, runVars, matVars, map_name,
                   image, original_links, raised, filepath, images, folders, saveLog,
                   bakeLog, status, ghostVars>>

\* bake_material: every group is baked, return True; execute counts it
MaterialDone ==
    /\ pc = "group"
    /\ ug > Len(uv_groups)
    /\ status' = [status EXCEPT ![CurMat] = "Succeeded"]
    /\ success_count' = success_count + 1
    /\ matIdx' = matIdx + 1
    /\ pc' = "material"
    /\ UNCHANGED <<sceneVars, resolveVars, matList, matVars, chanVars, worldVars,
                   ghostVars>>

\* ---------------------------------------------------------- _bake_all_maps
\* MapName that keeps only the base name of a name with underscores
BaseOnlyName(name, suffix) ==
    LET material_parts == SplitUnderscore(name)
    IN  IF Len(material_parts) > 1
        THEN material_parts[1] \o <<"_", suffix>>
        ELSE name \o <<"_", suffix>>

\* the naming convention of _bake_all_maps
MapName(name, suffix) ==
    LET material_parts == SplitUnderscore(name)
    IN  IF Len(material_parts) > 1
        THEN material_parts[1] \o <<"_">> \o JoinUnderscore(Tail(material_parts))
             \o <<"_", suffix>>
        ELSE name \o <<"_", suffix>>

ImagesNamed(name) == {im \in images.all : im.name = name}

\* an image that is removed is no longer the image of any node
DropImages(g, ids) ==
    [g EXCEPT !.nodes = [i \in 1..Len(@) |->
                            IF @[i].image \in ids THEN [@[i] EXCEPT !.image = 0] ELSE @[i]]]

\* the test that sends a channel through the emission rewiring
IsMetallic(suffix) == suffix = "metallic"

\* one turn of the loop over BAKE_TYPES, up to the bake call: name the map,
\* make its image, hand it to the bake node, rewire for the metallic map
BeginChannel ==
    /\ pc = "channel"
    /\ chan <= Len(BAKE_TYPES)
    /\ LET suffix == BAKE_TYPES[chan].suffix
           name == MapName(matName[CurMat], suffix)
           existing == {im.id : im \in ImagesNamed(name)}
           cleared == [m \in MatIds |-> DropImages(graph[m], existing)]
           withImage == [cleared EXCEPT ![CurMat] = SetNodeImage(@, bake_node, images.fresh)]
       IN  /\ map_name' = name
           /\ images' = [all |-> (images.all \ ImagesNamed(name))
                                     \cup {[id |-> images.fresh, name |-> name]},
                         fresh |-> images.fresh + 1]
           /\ image' = images.fresh
           /\ IF IsMetallic(suffix) /\ RerouteRaises(withImage[CurMat])
              THEN /\ original_links' = NoLinks
                   /\ graph' = [withImage EXCEPT ![CurMat] = setup_metallic_nodes(@)]
                   /\ raised' = TRUE
                   /\ pc' = "after"
                   /\ UNCHANGED <<preGraph, reroutes>>
              ELSE IF IsMetallic(suffix)
              THEN /\ original_links' = [taken |-> TRUE, links |-> withImage[CurMat].links]
                   /\ graph' = [withImage EXCEPT ![CurMat] = setup_metallic_nodes(@)]
                   /\ preGraph' = withImage[CurMat]
                   /\ reroutes' = reroutes + 1
                   /\ raised' = FALSE
                   /\ pc' = "bake"
              ELSE /\ original_links' = NoLinks
                   /\ graph' = withImage
                   /\ raised' = FALSE
                   /\ pc' = "bake"
                   /\ UNCHANGED <<preGraph, reroutes>>
    /\ UNCHANGED <<objects, materials, matName, resolveVars, runVars, matVars, chan,
                   bake_node, filepath, selected, active, folders, saveLog, bakeLog,
                   status, scene0, fps0, restores, uvOut>>

\* what the renderer is handed by one bake call
BakeCall(ok) ==
    [material |-> CurMat, obj |-> active, selected |-> selected,
     type |-> BAKE_TYPES[chan].type, suffix |-> BAKE_TYPES[chan].suffix,
     node |-> graph[CurMat].active, image |-> image, uv_hash |-> uv_groups[ug].uv_hash,
     ok |-> ok]

\* bpy.ops.object.bake returns, and the image is saved
BakeReturns ==
    /\ pc = "bake"
    /\ bakeLog' = Append(bakeLog, BakeCall(TRUE))
    /\ saveLog' = Append(saveLog, [folder |-> material_path, file |-> map_name \o <<".png">>])
    /\ pc' = "finally"
    /\ UNCHANGED <<sceneVars, resolveVars, runVars, matVars, chanVars, filepath, images,
                   selected, active, folders, status, ghostVars>>

\* BakeRaises with the image saved all the same
BakeRaisesSaves ==
    /\ pc = "bake"
    /\ bakeLog' = Append(bakeLog, BakeCall(FALSE))
    /\ saveLog' = Append(saveLog, [folder |-> material_path, file |-> map_name \o <<".png">>])
    /\ raised' = TRUE
    /\ pc' = "finally"
    /\ UNCHANGED <<sceneVars, resolveVars, runVars, matVars, chan, bake_node, map_name,
                   image, original_links, filepath, images, selected, active, folders,
                   status, ghostVars>>

\* bpy.ops.object.bake raises
BakeRaises ==
    /\ pc = "bake"
    /\ bakeLog' = Append(bakeLog, BakeCall(FALSE))
    /\ raised' = TRUE
    /\ pc' = "finally"
    /\ UNCHANGED <<sceneVars, resolveVars, runVars, matVars, chan, bake_node, map_name,
                   image, original_links, filepath, images, selected, active, folders,
                   saveLog, status, ghostVars>>

\* the finally clause: restore when original_links is true
Finally ==
    /\ pc = "finally"
    /\ IF Truthy(original_links)
       THEN /\ \E step \in {0, 1} :
                  graph' = [graph EXCEPT ![CurMat] =
                               restore_material_links(@, original_links.links, step)]
            /\ restores' = restores + 1
       ELSE UNCHANGED <<graph, restores>>
    /\ pc' = "after"
    /\ UNCHANGED <<objects, materials, matName, resolveVars, runVars, matVars, chanVars,
                   worldVars, status, scene0, fps0, preGraph, reroutes, uvOut>>

\* the channel went through: the loop goes on
NextChannel ==
    /\ pc = "after"
    /\ ~raised
    /\ chan' = chan + 1
    /\ pc' = "channel"
    /\ UNCHANGED <<sceneVars, resolveVars, runVars, matVars, bake_node, map_name, image,
                   original_links, raised, worldVars, status, ghostVars>>

\* ChannelFailed that lets the failure end the loop over the materials
ChannelFailedEndsRun ==
    /\ pc = "after"
    /\ raised
    /\ status' = [status EXCEPT ![CurMat] = "Failed"]
    /\ matIdx' = Len(matList) + 1
    /\ pc' = "material"
    /\ UNCHANGED <<sceneVars, resolveVars, matList, success_count, matVars, chanVars,
                   worldVars, ghostVars>>

\* ChannelFailed that tries the channel again
ChannelFailedRetries ==
    /\ pc = "after"
    /\ raised
    /\ pc' = "channel"
    /\ UNCHANGED <<sceneVars, resolveVars, runVars, matVars, chanVars, worldVars, status,
                   ghostVars>>

\* the except clause: _bake_all_maps returns False, bake_material returns
\* False, execute takes the next material
ChannelFailed ==
    /\ pc = "after"
    /\ raised
    /\ status' = [status EXCEPT ![CurMat] = "Failed"]
    /\ matIdx' = matIdx + 1
    /\ pc' = "material"
    /\ UNCHANGED <<sceneVars, resolveVars, matList, success_count, matVars, chanVars,
                   worldVars, ghostVars>>

\* _bake_all_maps returns True: bake_material takes the next UV group
AllMapsBaked ==
    /\ pc = "channel"
    /\ chan > Len(BAKE_TYPES)
    /\ ug' = ug + 1
    /\ pc' = "group"
    /\ UNCHANGED <<sceneVars, resolveVars, runVars, material_path, uv_groups, chanVars,
                   worldVars, status, ghostVars>>

\* ------------------------------------------------ cleanup_unused_materials
\* material.users
Users(objs, m) ==
    Cardinality({<<o, k>> \in (1..Len(objs)) \X (1..2) :
                    k <= Len(objs[o].slots) /\ objs[o].slots[k] = m})

RECURSIVE CleanupWalk(_, _, _, _)
\* "for material in bpy.data.materials: ... remove(material)" walked by
\* position over the materials in order; step as in RemoveWalk
CleanupWalk(objs, mats, i, step) ==
    IF i > Len(mats) THEN SeqToSet(mats)
    ELSE IF Users(objs, mats[i]) = 0
         THEN CleanupWalk(objs, SubSeq(mats, 1, i - 1) \o SubSeq(mats, i + 1, Len(mats)),
                          i + step, step)
         ELSE CleanupWalk(objs, mats, i + 1, step)

RECURSIVE Ascending(_)
Ascending(S) ==
    IF S = {} THEN <<>>
    ELSE LET x == CHOOSE y \in S : \A z \in S : y <= z
         IN  <<x>> \o Ascending(S \ {x})

\* Cleanup inside the loop over the materials: after any material
CleanupEarly ==
    /\ pc = "material"
    /\ matIdx > 1
    /\ \E step \in {0, 1} : materials' = CleanupWalk(objects, Ascending(materials), 1, step)
    /\ pc' = "done"
    /\ UNCHANGED <<objects, matName, graph, resolveVars, runVars, matVars, chanVars,
                   worldVars, status, ghostVars>>

\* execute: every material is done; clean up and report
Cleanup ==
    /\ pc = "material"
    /\ matIdx > Len(matList)
    /\ \E step \in {0, 1} : materials' = CleanupWalk(objects, Ascending(materials), 1, step)
    /\ pc' = "done"
    /\ UNCHANGED <<objects, matName, graph, resolveVars, runVars, matVars, chanVars,
                   worldVars, status, ghostVars>>

Next ==
    \/ ResolvePass1
    \/ ResolveGroup
    \/ GetOutputPath
    \/ Enumerate
    \/ BakeMaterial
    \/ GroupObjects
    \/ SelectGroup
    \/ MaterialDone
    \/ BeginChannel
    \/ BakeReturns
    \/ BakeRaises
    \/ Finally
    \/ NextChannel
    \/ ChannelFailed
    \/ AllMapsBaked
    \/ Cleanup

Spec == Init /\ [][Next]_vars

SpecGraph == InitGraph /\ [][Next]_vars

SpecEditMode == InitEditMode /\ [][Next]_vars

\* ------------------------------------------------- get_uv_hash by itself
InitUV == \E mesh \in UVMeshChoices : Scene(<<mesh>>, DefaultGraph, TRUE, "uv")

\* one call get_uv_hash(obj, material)
HashCall ==
    /\ pc = "uv"
    /\ \E m \in OrigMats :
          /\ uvOut[m].kind = "uncalled"
          /\ uvOut' = [uvOut EXCEPT ![m] = get_uv_hash(objects[1], m)]
    /\ UNCHANGED <<sceneVars, pc, resolveVars, runVars, matVars, chanVars, worldVars,
                   status, scene0, fps0, preGraph, reroutes, restores>>

NextUV == HashCall

SpecUV == InitUV /\ [][NextUV]_vars

\* ------------------------------------------- bake_textures (per object)
\* The per-object variant bakes object 1.  It keeps its locals in the
\* variables of the per-material run: matList is materials (one entry per
\* slot), bake_node is bake_nodes (a node per entry), original_links is the
\* list of [material, links], preGraph is the node tree of every material as
\* the metallic channel found it, reroutes and restores count the calls of
\* setup_metallic_nodes that returned and of restore_material_links.

\* a node tree whose node named 'Material Output' is a value node
MislabelledGraph ==
    [nodes |-> << Node(1, "BSDF_PRINCIPLED", "Principled BSDF", 1),
                  Node(2, "OUTPUT_MATERIAL", "Output", 0),
                  Node(3, "VALUE", "Material Output", 1) >>,
     links |-> << Link(1, "BSDF", 2, "Surface") >>,
     active |-> NoNode,
     fresh |-> 5]

TexSlotChoices == {<<1>>, <<1, 1>>, <<1, 2>>, <<2, 1>>}

\* a call of bake_textures on an object of one or two slots
InitTextures ==
    \E hasUV \in BOOLEAN, slots \in TexSlotChoices,
       g1 \in GraphChoices \cup {MislabelledGraph} :
        Scene(<< Mesh(hasUV, slots, <<Poly(0, Wide)>>) >>, g1, TRUE, "textures")

TexObj == objects[1]

validate_object(obj) ==
    /\ obj.type = "MESH"
    /\ obj.polys # <<>>
    /\ obj.slots # <<>>
    /\ NoMat \notin SeqToSet(obj.slots)
    /\ obj.hasUV

RECURSIVE SetupBakeNodes(_, _, _)
\* "for material in materials: bake_nodes.append(setup_bake_nodes(material))"
\* on the record [graph, bake_nodes]
SetupBakeNodes(r, mats, k) ==
    IF k > Len(mats) THEN r
    ELSE LET g == setup_bake_node(r.graph[mats[k]])
         IN  SetupBakeNodes([graph |-> [r.graph EXCEPT ![mats[k]] = g],
                             bake_nodes |-> Append(r.bake_nodes, g.active)],
                            mats, k + 1)

\* bake_textures up to the loop over the bake types
TexEnter ==
    /\ pc = "textures"
    /\ IF ~validate_object(TexObj)
       THEN /\ pc' = "returned"
            /\ UNCHANGED <<graph, matList, bake_node, chan, selected, active, folders>>
       ELSE LET mats == TexObj.slots
                r == SetupBakeNodes([graph |-> graph, bake_nodes |-> <<>>], mats, 1)
            IN  /\ folders' = folders \cup {ObjName(1)}
                /\ selected' = {1}
                /\ active' = 1
                /\ matList' = mats
                /\ graph' = r.graph
                /\ bake_node' = r.bake_nodes
                /\ chan' = 1
                /\ pc' = "tex_channel"
    /\ UNCHANGED <<objects, materials, matName, resolveVars, matIdx, success_count,
                   matVars, map_name, image, original_links, raised, filepath, images,
                   saveLog, bakeLog, status, ghostVars>>

\* a bake node of the list was removed by the setup_bake_nodes call of a
\* later slot of the same material
Dangling(g, mats, nodes) ==
    \E k \in 1..Len(nodes) : ~HasNode(g[mats[k]], nodes[k])

RECURSIVE SetImages(_, _, _, _, _)
\* "for bake_node in bake_nodes: bake_node.image = bake_image"
SetImages(g, mats, nodes, k, im) ==
    IF k > Len(nodes) THEN g
    ELSE SetImages([g EXCEPT ![mats[k]] = SetNodeImage(@, nodes[k], im)],
                   mats, nodes, k + 1, im)

RECURSIVE RerouteAll(_, _, _)
\* "for material in materials: original_links.append((material,
\* setup_metallic_nodes(material)))" on the record [graph, links, raised]; the
\* loop ends at the call that raises
RerouteAll(r, mats, k) ==
    IF k > Len(mats) THEN r
    ELSE LET m == mats[k]
             g == setup_metallic_nodes(r.graph[m])
         IN  IF RerouteRaises(r.graph[m])
             THEN [r EXCEPT !.graph[m] = g, !.raised = TRUE]
             ELSE RerouteAll([r EXCEPT !.graph[m] = g,
                                       !.links = Append(@, [material |-> m,
                                                            links |-> r.graph[m].links])],
                             mats, k + 1)

\* one turn of the loop over the bake types, up to the inner try.  Writing
\* the image of a removed node is undefined: it raises, or it has no effect.
TexBeginChannel ==
    /\ pc = "tex_channel"
    /\ chan <= Len(BAKE_TYPES)
    /\ LET suffix == BAKE_TYPES[chan].suffix
           name == ObjName(1) \o <<"_", suffix>>
           withImage == SetImages(graph, matList, bake_node, 1, images.fresh)
       IN  /\ map_name' = name
           /\ images' = [all |-> (images.all \ ImagesNamed(name))
                                     \cup {[id |-> images.fresh, name |-> name]},
                         fresh |-> images.fresh + 1]
           /\ image' = images.fresh
           /\ \E stale \in {"raises", "ignored"} :
                 IF Dangling(graph, matList, bake_node) /\ stale = "raises"
                 THEN /\ pc' = "returned"
                      /\ raised' = TRUE
                      /\ UNCHANGED <<graph, original_links, preGraph, reroutes>>
                 ELSE IF IsMetallic(suffix)
                 THEN LET r == RerouteAll([graph |-> withImage, links |-> <<>>,
                                           raised |-> FALSE], matList, 1)
                      IN  /\ graph' = r.graph
                          /\ original_links' = r.links
                          /\ preGraph' = withImage
                          /\ reroutes' = Len(r.links)
                          /\ raised' = r.raised
                          /\ pc' = IF r.raised THEN "returned" ELSE "tex_bake"
                 ELSE /\ graph' = withImage
                      /\ original_links' = <<>>
                      /\ raised' = FALSE
                      /\ pc' = "tex_bake"
                      /\ UNCHANGED <<preGraph, reroutes>>
    /\ UNCHANGED <<objects, materials, matName, resolveVars, runVars, matVars, chan,
                   bake_node, filepath, selected, active, folders, saveLog, bakeLog,
                   status, scene0, fps0, restores, uvOut>>

\* what the renderer is handed by one bake call of bake_textures
TexBakeCall(ok) ==
    [obj |-> active, selected |-> selected,
     type |-> IF IsMetallic(BAKE_TYPES[chan].suffix) THEN "EMIT" ELSE BAKE_TYPES[chan].type,
     suffix |-> BAKE_TYPES[chan].suffix, image |-> image, ok |-> ok]

\* bpy.ops.object.bake returns, and the image is saved
TexBakeReturns ==
    /\ pc = "tex_bake"
    /\ bakeLog' = Append(bakeLog, TexBakeCall(TRUE))
    /\ saveLog' = Append(saveLog, [folder |-> ObjName(1), file |-> map_name \o <<".png">>])
    /\ pc' = "tex_finally"
    /\ UNCHANGED <<sceneVars, resolveVars, runVars, matVars, chanVars, filepath, images,
                   selected, active, folders, status, ghostVars>>

\* bpy.ops.object.bake raises
TexBakeRaises ==
    /\ pc = "tex_bake"
    /\ bakeLog' = Append(bakeLog, TexBakeCall(FALSE))
    /\ raised' = TRUE
    /\ pc' = "tex_finally"
    /\ UNCHANGED <<sceneVars, resolveVars, runVars, matVars, chan, bake_node, map_name,
                   image, original_links, filepath, images, selected, active, folders,
                   saveLog, status, ghostVars>>

RECURSIVE RestoreAll(_, _, _, _)
\* "for material, links in original_links: restore_material_links(material,
\* links)"; steps[k] is the outcome of the k-th call's iteration
RestoreAll(g, taken, k, steps) ==
    IF k > Len(taken) THEN g
    ELSE RestoreAll([g EXCEPT ![taken[k].material] =
                        restore_material_links(@, taken[k].links, steps[k])],
                    taken, k + 1, steps)

\* the finally clause of bake_textures
TexFinally ==
    /\ pc = "tex_finally"
    /\ IF IsMetallic(BAKE_TYPES[chan].suffix)
       THEN /\ \E steps \in [1..Len(original_links) -> {0, 1}] :
                  graph' = RestoreAll(graph, original_links, 1, steps)
            /\ restores' = Len(original_links)
       ELSE UNCHANGED <<graph, restores>>
    /\ pc' = "tex_after"
    /\ UNCHANGED <<objects, materials, matName, resolveVars, runVars, matVars, chanVars,
                   worldVars, status, scene0, fps0, preGraph, reroutes, uvOut>>

\* the bake type went through: the loop goes on
TexNextChannel ==
    /\ pc = "tex_after"
    /\ ~raised
    /\ chan' = chan + 1
    /\ pc' = "tex_channel"
    /\ UNCHANGED <<sceneVars, resolveVars, runVars, matVars, bake_node, map_name, image,
                   original_links, raised, worldVars, status, ghostVars>>

\* the except clause of bake_textures: return False
TexFailed ==
    /\ pc = "tex_after"
    /\ raised
    /\ pc' = "returned"
    /\ UNCHANGED <<sceneVars, resolveVars, runVars, matVars, chanVars, worldVars, status,
                   ghostVars>>

\* every bake type went through: return True, which execute counts
TexReturnsTrue ==
    /\ pc = "tex_channel"
    /\ chan > Len(BAKE_TYPES)
    /\ success_count' = success_count + 1
    /\ pc' = "returned"
    /\ UNCHANGED <<sceneVars, resolveVars, matList, matIdx, matVars, chanVars, worldVars,
                   status, ghostVars>>

NextTextures ==
    \/ TexEnter
    \/ TexBeginChannel
    \/ TexBakeReturns
    \/ TexBakeRaises
    \/ TexFinally
    \/ TexNextChannel
    \/ TexFailed
    \/ TexReturnsTrue

SpecTextures == InitTextures /\ [][NextTextures]_vars

\* ================================================================ claims
\* the material a usage held when the run began, and the one it holds now
Mat0(u) == scene0[u.obj].slots[u.slot]

MatNow(u) == objects[u.obj].slots[u.slot]

\* every usage of the scene the run began with, with its fingerprint
UsageFps == fps0

\* duplicate_shared_materials has returned
Resolved == pc \notin {"resolve", "resolve2", "uv"}

\* the metallic channel's finally clause is over
MetallicOver == pc = "after" /\ IsMetallic(BAKE_TYPES[chan].suffix)

\* C1: snapshot, setup_metallic_nodes, bake (returning or raising), restore:
\* when the metallic channel's finally clause is over, the material's node set
\* and link set are the ones setup_metallic_nodes found.
C1_RoundTrip ==
    MetallicOver =>
        /\ NodeSet(graph[CurMat]) = NodeSet(preGraph)
        /\ LinkSet(graph[CurMat]) = LinkSet(preGraph)

\* C2: once the finally clause of a channel is over (so before _bake_all_maps
\* returns), restore_material_links has been called once for every call of
\* setup_metallic_nodes, whatever the snapshot and whether the bake raised.
C2_RestorePerReroute ==
    pc \notin {"bake", "finally"} => restores = reroutes

\* C3: after duplicate_shared_materials and before the first bake call, two
\* usages that shared a material and have differing non-sentinel fingerprints
\* hold distinct materials.
C3_DifferingUVsSplit ==
    (Resolved /\ bakeLog = <<>>) =>
        \A a, b \in UsageFps :
            (Mat0(a.u) = Mat0(b.u) /\ a.fp # b.fp
             /\ ~IsSentinel(a.fp) /\ ~IsSentinel(b.fp))
            => MatNow(a.u) # MatNow(b.u)

\* two distinct usages (with their fingerprints) that shared a material and a
\* non-sentinel fingerprint
SameUVPair(a, b) ==
    a.u # b.u /\ Mat0(a.u) = Mat0(b.u) /\ a.fp = b.fp /\ ~IsSentinel(a.fp)

IsPrefix(p, s) == Len(p) <= Len(s) /\ SubSeq(s, 1, Len(p)) = p

\* C4: after duplicate_shared_materials, two usages that shared a material and
\* have the same non-sentinel fingerprint hold the same material object: the
\* original one, renamed to a master.
C4_SameUVsShareMaster ==
    Resolved =>
        \A a, b \in UsageFps :
            SameUVPair(a, b) =>
                /\ MatNow(a.u) = MatNow(b.u)
                /\ MatNow(a.u) = Mat0(a.u)
                /\ IsPrefix(OrigName(Mat0(a.u)) \o <<"_", "MASTER", "_">>,
                            matName[MatNow(a.u)])

\* C4 witness: the resolver has run on a scene with such a pair on two objects
C4_Witness ==
    /\ pc = "enumerate"
    /\ \E a, b \in UsageFps : SameUVPair(a, b) /\ a.u.obj # b.u.obj

\* the loops of the faces of objects[1] that sit on a slot holding m
FaceLoops(m) ==
    {pl \in (1..Len(objects[1].polys)) \X (1..3) :
        /\ PolyUses(objects[1], objects[1].polys[pl[1]], m)
        /\ pl[2] <= Len(objects[1].polys[pl[1]].loops)}

LoopCoord(pl) == RoundUV(objects[1].polys[pl[1]].loops[pl[2]])

\* the set of rounded coordinates the faces using m touch
CoordSet(m) == {LoopCoord(pl) : pl \in FaceLoops(m)}

\* how many loops of the faces using m lie on the rounded coordinate c
CoordCount(m, c) == Cardinality({pl \in FaceLoops(m) : LoopCoord(pl) = c})

SameCoordBag(m, n) ==
    /\ CoordSet(m) = CoordSet(n)
    /\ \A c \in CoordSet(m) : CoordCount(m, c) = CoordCount(n, c)

BothHashed == uvOut[1].kind = "hash" /\ uvOut[2].kind = "hash"

\* C5 as stated: two (mesh, material) pairs whose faces touch the same set of
\* rounded coordinates get equal fingerprints.
C5_SameSetSameHash ==
    (BothHashed /\ CoordSet(1) = CoordSet(2)) => uvOut[1] = uvOut[2]

\* C5 amended: two (mesh, material) pairs whose faces touch the same rounded
\* coordinates the same number of times each get equal fingerprints, in
\* whatever order the faces and loops are traversed.
C5_SameBagSameHash ==
    (BothHashed /\ SameCoordBag(1, 2)) => uvOut[1] = uvOut[2]

\* C5 witness: both pairs are fingerprinted, they touch the same coordinates
\* equally often, and the traversal meets them in different orders
C5_Witness ==
    /\ BothHashed
    /\ SameCoordBag(1, 2)
    /\ Cardinality(CoordSet(1)) > 1
    /\ CollectCoords(objects[1], objects[1].polys, 1)
         # CollectCoords(objects[1], objects[1].polys, 2)

\* C6: get_uv_hash returns no_uv exactly for a mesh without UV layer; else
\* material_not_found exactly when no slot holds the material; else empty_uv
\* exactly when no face sits on a slot holding the material; else a hash.
C6_SentinelCases ==
    \A m \in OrigMats :
        uvOut[m].kind # "uncalled" =>
            LET obj == objects[1]
                inSlots == \E k \in 1..Len(obj.slots) : obj.slots[k] = m
                faces == \E i \in 1..Len(obj.polys) : PolyUses(obj, obj.polys[i], m)
            IN  uvOut[m].kind =
                    (IF ~obj.hasUV THEN "no_uv"
                     ELSE IF ~inSlots THEN "material_not_found"
                     ELSE IF ~faces THEN "empty_uv"
                     ELSE "hash")

\* C6 witness: empty_uv for a mesh with UVs and faces, the material in a slot,
\* and a face whose material_index is past the slots
C6_Witness ==
    /\ uvOut[1].kind = "empty_uv"
    /\ objects[1].polys # <<>>
    /\ \E i \in 1..Len(objects[1].polys) :
          objects[1].polys[i].material_index >= Len(objects[1].slots)

\* the objects that use material m
UsersOf(m) == {o \in 1..Len(objects) : UsesMaterial(objects[o], m)}

\* the UV groups of material m: the non-sentinel fingerprints of its users
GroupFps(m) ==
    {fp \in {get_uv_hash(objects[o], m) : o \in UsersOf(m)} : ~IsSentinel(fp)}

\* m has no UV group: every object that uses it has a sentinel fingerprint
NoGroup(m) == \A o \in UsersOf(m) : IsSentinel(get_uv_hash(objects[o], m))

\* the first object, in scene order, of a UV group of m
FirstMesh(m, fp) ==
    CHOOSE o \in UsersOf(m) :
        /\ get_uv_hash(objects[o], m) = fp
        /\ \A q \in UsersOf(m) : get_uv_hash(objects[q], m) = fp => o <= q

\* the bake calls made for material m with one bake type
Calls(m, type) ==
    {i \in 1..Len(bakeLog) : bakeLog[i].material = m /\ bakeLog[i].type = type}

FailedCalls(m) == {i \in 1..Len(bakeLog) : bakeLog[i].material = m /\ ~bakeLog[i].ok}

NoBakeFailed == \A i \in 1..Len(bakeLog) : bakeLog[i].ok

Enumerated == SeqToSet(matList)

\* C7: in a run where no bake call fails, a material with N >= 1 UV groups is
\* baked exactly N times for each of the five bake types, the active object
\* being the first mesh of each group in turn.
C7_OneBakePerGroup ==
    (pc = "done" /\ NoBakeFailed) =>
        \A m \in Enumerated : GroupFps(m) # {} =>
            \A k \in 1..Len(BAKE_TYPES) :
                LET calls == Calls(m, BAKE_TYPES[k].type)
                IN  /\ Cardinality(calls) = Cardinality(GroupFps(m))
                    /\ {bakeLog[i].obj : i \in calls}
                         = {FirstMesh(m, fp) : fp \in GroupFps(m)}
                    /\ \A i, j \in calls : bakeLog[i].obj = bakeLog[j].obj => i = j

\* C7 witness: a finished run without failure in which one UV group of a
\* material holds two meshes
C7_Witness ==
    /\ pc = "done"
    /\ NoBakeFailed
    /\ \E m \in Enumerated :
          GroupFps(m) # {} /\ Cardinality(UsersOf(m)) > Cardinality(GroupFps(m))

\* the last bake call has raised and its except clause has not yet run
FailureInFlight(i) == i = Len(bakeLog) /\ pc \in {"finally", "after"}

\* C8: after a bake call raised for a material no further bake call is made
\* for it and it is marked failed; the run goes on, and when it ends every
\* enumerated material is Succeeded or Failed by its own groups and its own
\* bake calls alone.
C8_FailureIsLocal ==
    /\ \A i \in 1..Len(bakeLog) : ~bakeLog[i].ok =>
          /\ \A j \in (i + 1)..Len(bakeLog) : bakeLog[j].material # bakeLog[i].material
          /\ ~FailureInFlight(i) => status[bakeLog[i].material] = "Failed"
    /\ pc = "done" =>
          \A m \in Enumerated :
              status[m] = (IF GroupFps(m) # {} /\ FailedCalls(m) = {}
                           THEN "Succeeded" ELSE "Failed")

\* C8 witness: the run is over, a bake of the first material raised, and the
\* material after it succeeded
C8_Witness ==
    /\ pc = "done"
    /\ Len(matList) = 2
    /\ FailedCalls(matList[1]) # {}
    /\ status[matList[2]] = "Succeeded"

\* objects A and B are meshes with the one slot holding M, both fingerprints
\* are hashes, and no other object uses M
TwoMeshesShareM ==
    /\ Len(scene0) >= 2
    /\ \A o \in 1..2 : scene0[o].type = "MESH" /\ scene0[o].slots = <<1>>
                       /\ ~IsSentinel(get_uv_hash(scene0[o], 1))
    /\ \A o \in 3..Len(scene0) : ~UsesMaterial(scene0[o], 1)

\* C9: A and B share M with different UV layouts; after a run without failure
\* A and B hold distinct materials and ten distinct files were written, none
\* of them twice.
C9_TwoChannelSets ==
    (/\ pc = "done" /\ NoBakeFailed
     /\ TwoMeshesShareM
     /\ get_uv_hash(scene0[1], 1) # get_uv_hash(scene0[2], 1)) =>
        /\ objects[1].slots[1] # objects[2].slots[1]
        /\ Len(saveLog) = 2 * Len(BAKE_TYPES)
        /\ \A i, j \in 1..Len(saveLog) : saveLog[i] = saveLog[j] => i = j

SameUVScenarioDone ==
    /\ pc = "done" /\ NoBakeFailed
    /\ TwoMeshesShareM
    /\ get_uv_hash(scene0[1], 1) = get_uv_hash(scene0[2], 1)

\* the files written into the folder of material 1
FilesOfM == {i \in 1..Len(saveLog) : saveLog[i].folder = matName[1]}

\* both slots hold M, every bake type was baked once, and the five files are
\* named stem_<channel>.png
BakedOnceAs(stem) ==
    /\ objects[1].slots[1] = 1 /\ objects[2].slots[1] = 1
    /\ \A k \in 1..Len(BAKE_TYPES) : Cardinality(Calls(1, BAKE_TYPES[k].type)) = 1
    /\ Cardinality(FilesOfM) = Len(BAKE_TYPES)
    /\ {saveLog[i].file : i \in FilesOfM}
         = {stem \o <<"_", BAKE_TYPES[k].suffix, ".png">> : k \in 1..Len(BAKE_TYPES)}

\* C10 as stated: A and B share M with identical UVs; after a run without
\* failure both slots hold M, each channel was baked once, and the files are
\* M_A_<channel>.png in a folder whose name begins with M_A.
C10_FilesNamedMA ==
    SameUVScenarioDone =>
        /\ BakedOnceAs(<<"M", "_", "A">>)
        /\ IsPrefix(<<"M", "_", "A">>, matName[1])

\* C10 amended: A and B share M with identical UVs; after a run without
\* failure both slots hold M, renamed M_MASTER_A, each channel was baked once,
\* and the files are M_MASTER_A_<channel>.png in the folder M_MASTER_A.
C10_FilesNamedMaster ==
    SameUVScenarioDone =>
        /\ BakedOnceAs(<<"M", "_", "MASTER", "_", "A">>)
        /\ matName[1] = <<"M", "_", "MASTER", "_", "A">>
        /\ <<"M", "_", "MASTER", "_", "A">> \in folders

\* C10 witness: the scenario has run to its end without failure
C10_Witness == SameUVScenarioDone /\ Len(saveLog) >= Len(BAKE_TYPES)

\* the material has two usages with one sentinel fingerprint, and no two of
\* its usages share a hash (fps: the usages with their fingerprints)
OnlySentinelSharing(fps, m) ==
    /\ \E a, b \in fps :
          /\ a.u # b.u /\ Mat0(a.u) = m /\ Mat0(b.u) = m
          /\ a.fp = b.fp /\ IsSentinel(a.fp)
    /\ \A a, b \in fps : Mat0(a.u) = m => ~SameUVPair(a, b)

\* C11: usages of one material that share a sentinel fingerprint cause no
\* master rename, no clone and no slot reassignment in
\* duplicate_shared_materials; and in bake_material no object whose
\* fingerprint for the material is a sentinel is a member of a UV group (at
\* every turn of the loop over uv_groups) or the active object of a bake call
\* (at every bake call).
C11_SentinelsUntouched ==
    /\ Resolved =>
          LET fps == UsageFps
          IN  /\ \A a \in fps : IsSentinel(a.fp) => MatNow(a.u) = Mat0(a.u)
              /\ \A m \in OrigMats : OnlySentinelSharing(fps, m) =>
                    /\ matName[m] = OrigName(m)
                    /\ \A c \in materials \ OrigMats : ~IsPrefix(OrigName(m), matName[c])
    /\ pc = "group" =>
          \A i \in 1..Len(uv_groups) : \A j \in 1..Len(uv_groups[i].objs) :
              ~IsSentinel(get_uv_hash(objects[uv_groups[i].objs[j]], CurMat))
    /\ pc = "bake" =>
          /\ active = uv_groups[ug].objs[1]
          /\ ~IsSentinel(get_uv_hash(objects[active], CurMat))

\* C11 witness: a finished run on a scene where M has two usages with one
\* sentinel fingerprint while bake calls were made for another material
C11_Witness ==
    /\ pc = "done"
    /\ bakeLog # <<>>
    /\ OnlySentinelSharing(UsageFps, 1)

\* the material has no Bake_Target node
NoBakeTarget(m) == NodeNamed(graph[m], <<"Bake_Target", 0>>) = {}

\* C12: a material none of whose users has a non-sentinel fingerprint gets no
\* Bake_Target node and no bake call, is marked failed by the grouping step,
\* and the loop over the materials goes on to the end.
C12_NoGroupFails ==
    \A m \in Enumerated : NoGroup(m) =>
        /\ status[m] \in {"Pending", "GroupingUVs", "Failed"}
        /\ NoBakeTarget(m)
        /\ \A i \in 1..Len(bakeLog) : bakeLog[i].material # m
        /\ (matIdx > 1 /\ \E k \in 1..(matIdx - 1) : k <= Len(matList) /\ matList[k] = m)
              => status[m] = "Failed"
        /\ pc = "done" => \A n \in Enumerated : status[n] \in {"Failed", "Succeeded"}

\* C12 witness: the run is over, the first material had no UV group, and the
\* material after it was baked
C12_Witness ==
    /\ pc = "done"
    /\ Len(matList) = 2
    /\ NoGroup(matList[1])
    /\ status[matList[2]] = "Succeeded"

\* the position of an enumerated material in execute's list
Position(m) == CHOOSE k \in 1..Len(matList) : matList[k] = m

\* execute is past get_all_materials and its check
PastEnumerate == Resolved /\ pc # "enumerate"

\* the two exceptions execute lets through to its own except clause: the
\* file was never saved, or no slot of a mesh holds a material.  The run is
\* then at the except clause, no folder was made, no bake call was made, no
\* material was processed or counted and none was removed.
TwoPreconditionsAbort ==
    /\ (Resolved /\ ~filepath) => pc = "error"
    /\ (PastEnumerate /\ get_all_materials(objects) = {}) => pc = "error"
    /\ pc = "error" =>
          /\ ~filepath \/ get_all_materials(objects) = {}
          /\ bakeLog = <<>> /\ saveLog = <<>> /\ folders = {}
          /\ success_count = 0
          /\ OrigMats \subseteq materials
          /\ \A m \in MatIds : status[m] = "None"

\* C13 as stated: each of the three precondition errors (file not saved, no
\* materials, no valid UV groups) aborts the run: after a material was found
\* to have no valid UV group no material is baked and cleanup is not done.
C13_ThreePreconditionsAbort ==
    /\ TwoPreconditionsAbort
    /\ pc = "done" => \A m \in Enumerated : ~NoGroup(m)
    /\ \A i \in 1..Len(bakeLog) : \A m \in Enumerated :
          NoGroup(m) => Position(bakeLog[i].material) < Position(m)

\* C13 amended: the file not being saved and the scene holding no material
\* abort the run before any material is processed, baked or removed; a
\* material without a valid UV group fails alone, after the run has passed
\* both tests, and the run goes on to its end.
C13_TwoPreconditionsAbort ==
    /\ TwoPreconditionsAbort
    /\ \A m \in Enumerated : (status[m] = "Failed" /\ NoGroup(m)) =>
          /\ pc # "error"
          /\ pc = "done" => \A n \in Enumerated : status[n] \in {"Failed", "Succeeded"}

\* C13 witness: the run stopped at the missing file path, on a scene with two
\* users of M that the resolver had renamed before
C13_Witness ==
    /\ pc = "error"
    /\ ~filepath
    /\ matName[1] # OrigName(1)

\* the moves of a material's state
StatusMoves ==
    {<<"None", "Pending">>, <<"Pending", "GroupingUVs">>,
     <<"GroupingUVs", "Failed">>, <<"GroupingUVs", "BakingChannels">>,
     <<"BakingChannels", "Failed">>, <<"BakingChannels", "Succeeded">>}

\* the step makes one bake call, for a material that is in BakingChannels,
\* and no earlier call was for the same material, UV group and bake type
OneNewBake ==
    /\ Len(bakeLog') = Len(bakeLog) + 1
    /\ SubSeq(bakeLog', 1, Len(bakeLog)) = bakeLog
    /\ LET b == bakeLog'[Len(bakeLog')]
       IN  /\ status[b.material] = "BakingChannels"
           /\ \A i \in 1..Len(bakeLog) :
                 <<bakeLog[i].material, bakeLog[i].uv_hash, bakeLog[i].type>>
                     # <<b.material, b.uv_hash, b.type>>

\* C14: the state of a material changes only along None -> Pending ->
\* GroupingUVs -> (Failed | BakingChannels) -> (Failed | Succeeded), so Failed
\* and Succeeded are never left; a bake call is made only for a material in
\* BakingChannels and never twice for one (material, UV group, bake type).
C14_StateMachine ==
    [][/\ \A m \in MatIds :
             status'[m] # status[m] => <<status[m], status'[m]>> \in StatusMoves
       /\ bakeLog' # bakeLog => OneNewBake]_vars

\* C14 witness: the run is over; the first material succeeded, the second
\* failed in a channel after its first
C14_Witness ==
    /\ pc = "done"
    /\ Len(matList) = 2
    /\ status[matList[1]] = "Succeeded"
    /\ status[matList[2]] = "Failed"
    /\ \E i \in FailedCalls(matList[2]) : bakeLog[i].type # BAKE_TYPES[1].type

\* the position of a bake type in BAKE_TYPES
TypeIndex(type) == CHOOSE k \in 1..Len(BAKE_TYPES) : BAKE_TYPES[k].type = type

\* the bake call i follows the call for the channel before it, made for the
\* same material and mesh, which returned; a first channel opens a group
InChannelOrder(i) ==
    LET b == bakeLog[i]
        k == TypeIndex(b.type)
    IN  /\ b.type \in {BAKE_TYPES[j].type : j \in 1..Len(BAKE_TYPES)}
        /\ b.suffix = BAKE_TYPES[k].suffix
        /\ IF k = 1
           THEN i > 1 => (~bakeLog[i - 1].ok
                          \/ bakeLog[i - 1].type = BAKE_TYPES[Len(BAKE_TYPES)].type)
           ELSE /\ i > 1
                /\ bakeLog[i - 1].ok
                /\ bakeLog[i - 1].type = BAKE_TYPES[k - 1].type
                /\ bakeLog[i - 1].material = b.material
                /\ bakeLog[i - 1].obj = b.obj

\* the metallic channel's bake call is about to be made
MetallicPending == pc = "bake" /\ IsMetallic(BAKE_TYPES[chan].suffix)

\* the calls of setup_metallic_nodes are the metallic bake calls made, and
\* the one about to be made
ReroutesAreMetallic ==
    reroutes = Cardinality({i \in 1..Len(bakeLog) : IsMetallic(bakeLog[i].suffix)})
               + (IF MetallicPending THEN 1 ELSE 0)

\* an emission node made during the run feeds the Surface input of an output
Rerouted(g) ==
    \E i \in 1..Len(g.links) :
        /\ g.links[i].ts = "Surface"
        /\ g.links[i].fn >= DefaultGraph.fresh
        /\ NodeById(g, g.links[i].fn).type = "EMISSION"

\* C15: for every mesh baked, the bake calls come in the order DIFFUSE,
\* NORMAL, ROUGHNESS, AO, EMIT for the channels diffuse, normal, roughness,
\* ao, metallic; setup_metallic_nodes is called for the metallic channel only
\* and before its bake call; and no other channel's bake call is made while
\* an emission node of setup_metallic_nodes feeds the output.
C15_OrderAndReroute ==
    /\ \A i \in 1..Len(bakeLog) : InChannelOrder(i)
    /\ ReroutesAreMetallic
    /\ pc = "bake" => (MetallicPending <=> original_links.taken)
    /\ (pc = "bake" /\ ~MetallicPending) => ~Rerouted(graph[CurMat])

\* how many bake calls returned
Returned == Cardinality({i \in 1..Len(bakeLog) : bakeLog[i].ok})

\* outputFolder/name.png of a bake call
FileOf(b) ==
    [folder |-> matName[b.material],
     file |-> MapName(matName[b.material], b.suffix) \o <<".png">>]

\* C16: there are as many files written as bake calls that returned, and
\* when a bake call has just ended the last file written is that call's file
\* exactly if it returned (so a file is written only with a bake call that
\* returned, and none for a call that raised); and after a call that raised
\* no call is made, hence no file written, for a later channel of the
\* material.
C16_SaveOnlyAfterBake ==
    /\ Len(saveLog) = Returned
    /\ pc = "finally" =>
          LET b == bakeLog[Len(bakeLog)]
          IN  b.ok <=> (saveLog # <<>> /\ saveLog[Len(saveLog)] = FileOf(b)
                        /\ Len(saveLog) = Returned)
    /\ \A i \in 1..Len(bakeLog) : ~bakeLog[i].ok =>
          \A j \in (i + 1)..Len(bakeLog) : bakeLog[j].material # bakeLog[i].material

\* C16 witness: files were written for a material, then a bake call for a
\* later channel of it raised, and the run went on to its end
C16_Witness ==
    /\ pc = "done"
    /\ \E i \in 2..Len(bakeLog) :
          /\ ~bakeLog[i].ok
          /\ bakeLog[i - 1].ok
          /\ bakeLog[i - 1].material = bakeLog[i].material
          /\ Len(saveLog) < Len(bakeLog)

Terminal(m) == status[m] \in {"Failed", "Succeeded"}

\* the materials no slot holds
Unused == {m \in OrigMats : Users(objects, m) = 0}

\* C17: cleanup_unused_materials has run only when every enumerated material
\* is Failed or Succeeded and the loop over the materials is over; until then
\* no material was removed, and no bake call is made after it.
C17_CleanupLast ==
    [][/\ (Resolved /\ pc # "done") => OrigMats \subseteq materials
       /\ pc' = "done" =>
             /\ \A m \in Enumerated : Terminal(m)
             /\ Enumerated = get_all_materials(objects)
             /\ matIdx > Len(matList)
             /\ bakeLog' = bakeLog]_vars

\* C17 witness: cleanup has run, and removed a material, in a run where a
\* material failed
C17_Witness ==
    /\ pc = "done"
    /\ \E m \in Enumerated : status[m] = "Failed"
    /\ Unused # {}
    /\ materials # OrigMats

\* the materials bake_material returned True for
Succeeded == {m \in Enumerated : status[m] = "Succeeded"}

\* C18: in a run past the preconditions the materials enumerated are exactly
\* the materials held by a slot of some mesh, each once; the loop takes them
\* one by one; success_count is the number of materials that reached
\* Succeeded, the total is the number enumerated, and 0 <= success_count <=
\* total; at the end every enumerated material has been processed.
C18_ReportCounts ==
    (PastEnumerate /\ pc # "error") =>
        /\ Enumerated = get_all_materials(objects)
        /\ Len(matList) = Cardinality(Enumerated)
        /\ success_count = Cardinality(Succeeded)
        /\ 0 <= success_count /\ success_count <= Len(matList)
        /\ \A k \in 1..Len(matList) :
              (k < matIdx <=> Terminal(matList[k]))
              /\ (k > matIdx => status[matList[k]] = "Pending")
        /\ pc = "done" => /\ matIdx = Len(matList) + 1
                          /\ \A m \in Enumerated : matName[m] \in folders

\* C18 witness: the run is over with one of two materials succeeded
C18_Witness ==
    /\ pc = "done"
    /\ Len(matList) = 2
    /\ success_count = 1

\* current_uv_hash of pass 2 for a usage
Recomputed(u) == get_uv_hash(objects[u.obj], objects[u.obj].slots[u.slot])

NodeIds(g) == {g.nodes[i].id : i \in 1..Len(g.nodes)}

\* restore_material_links was called in the finally clause that is just over
RestoreRan == MetallicOver /\ Truthy(original_links)

\* C20: after restore_material_links the nodes of the material are the ones
\* setup_metallic_nodes found: none of them is missing (an artist's emission
\* or value node included), and none of the nodes setup_metallic_nodes made
\* (emission, value, output, principled) is left.
C20_RestoreRemovesOwnNodes ==
    RestoreRan =>
        /\ NodeIds(preGraph) \subseteq NodeIds(graph[CurMat])
        /\ NodeIds(graph[CurMat]) \subseteq NodeIds(preGraph)

\* setup_metallic_nodes has returned and the finally clause has not yet run
RerouteInPlace == pc \in {"bake", "finally"} /\ IsMetallic(BAKE_TYPES[chan].suffix)

\* the links that end in an input socket
LinksInto(g, tn, ts) ==
    {g.links[i] : i \in {j \in 1..Len(g.links) : g.links[j].tn = tn /\ g.links[j].ts = ts}}

\* the nodes of a type, as a set
NodesOfType(g, type) == {n \in NodeSet(g) : n.type = type}

\* the nodes setup_metallic_nodes added to the graph it found
AddedNodes == {n \in NodeSet(graph[CurMat]) : n.id \notin NodeIds(preGraph)}

BakeTargets(m) == NodeNamed(graph[m], <<"Bake_Target", 0>>)

\* C22: a material's graph never holds two nodes named Bake_Target; at every
\* bake call the material's Bake_Target node exists, is nodes.active, and
\* holds the image made for this channel: the newest image, named after the
\* channel's map, and not the image of any earlier bake call.
C22_BakeTarget ==
    /\ \A m \in MatIds : Cardinality(BakeTargets(m)) <= 1
    /\ pc = "bake" =>
          LET g == graph[CurMat]
          IN  /\ Cardinality(BakeTargets(CurMat)) = 1
              /\ \A i \in BakeTargets(CurMat) :
                    /\ g.nodes[i].id = g.active
                    /\ g.nodes[i].id = bake_node
                    /\ g.nodes[i].type = "TEX_IMAGE"
                    /\ g.nodes[i].image = image
              /\ [id |-> image, name |-> map_name] \in images.all
              /\ map_name = MapName(matName[CurMat], BAKE_TYPES[chan].suffix)
              /\ image = images.fresh - 1
              /\ \A i \in 1..Len(bakeLog) : bakeLog[i].image # image

\* C22 witness: a bake call for a later channel of the second UV group of a
\* material, whose graph held the Bake_Target node of the first group
C22_Witness ==
    /\ pc = "bake"
    /\ ug = 2
    /\ chan > 1
    /\ \E i \in 1..Len(bakeLog) : bakeLog[i].material = CurMat

\* C23: at every bake call the active object is the first object of the UV
\* group being baked, a mesh that uses the material, and it is the only
\* selected object; so every bake call made was handed its own object alone,
\* whatever was selected for an earlier group or material.
C23_OnlyRepresentativeSelected ==
    /\ pc = "bake" =>
          /\ ug \in 1..Len(uv_groups)
          /\ active = uv_groups[ug].objs[1]
          /\ UsesMaterial(objects[active], CurMat)
          /\ selected = {active}
    /\ \A i \in 1..Len(bakeLog) : bakeLog[i].selected = {bakeLog[i].obj}

\* C23 witness: a bake call is about to be made for an object after bake
\* calls were made for another object
C23_Witness ==
    /\ pc = "bake"
    /\ \E i \in 1..Len(bakeLog) : bakeLog[i].obj # active

\* the usages of scene0 whose fingerprint raised
FailingUsages == {r.u : r \in {x \in fps0 : Raised(x.fp)}}

\* scene0 with the slot of every failing usage empty
WithoutFailing ==
    [o \in 1..Len(scene0) |->
        [scene0[o] EXCEPT !.slots =
            [k \in 1..Len(scene0[o].slots) |->
                IF [obj |-> o, slot |-> k] \in FailingUsages THEN NoMat
                ELSE scene0[o].slots[k]]]]

\* what resolve leaves of the scene that has no failing usage
ResolvedWithoutFailing ==
    duplicate_shared_materials(
        [objects |-> WithoutFailing, materials |-> OrigMats,
         matName |-> [m \in MatIds |-> IF m \in OrigMats THEN OrigName(m) ELSE <<>>],
         graph |-> [m \in MatIds |-> IF m \in OrigMats THEN graph[m] ELSE EmptyGraph]])

\* duplicate_shared_materials has just returned
ResolveReturned == pc = "resolve2" /\ grp > Len(material_usage)

\* C24: when the fingerprint of a usage raises inside resolve, resolve
\* returns all the same; the failing usage is in no group and its slot holds
\* what it held, and the materials, their names and every other slot are what
\* resolve makes of the scene in which the failing usages are absent
C24_FailingUsageSkipped ==
    /\ pc = "resolve2" =>
          \A g \in 1..Len(material_usage) :
              SeqToSet(material_usage[g].usages) \cap FailingUsages = {}
    /\ ResolveReturned =>
          LET ref == ResolvedWithoutFailing
          IN  /\ materials = ref.materials
              /\ matName = ref.matName
              /\ graph = ref.graph
              /\ \A o \in 1..Len(objects) : \A k \in 1..Len(objects[o].slots) :
                    objects[o].slots[k] =
                        IF [obj |-> o, slot |-> k] \in FailingUsages
                        THEN scene0[o].slots[k]
                        ELSE ref.objects[o].slots[k]
    /\ pc = "error" => ~filepath

\* resolve has returned on a scene with a failing usage, and the usages of
\* another object were grouped and their material renamed
C24_Witness ==
    /\ ResolveReturned
    /\ FailingUsages # {}
    /\ \E m \in OrigMats : matName[m] # OrigName(m)

\* the metallic bake type of bake_textures has ended: its finally clause is
\* done, or the call has returned from it
MetallicEnded ==
    /\ pc \in {"tex_after", "returned"}
    /\ chan \in 1..Len(BAKE_TYPES)
    /\ IsMetallic(BAKE_TYPES[chan].suffix)

\* C25: in bake_textures, when the metallic bake type has ended (the bake
\* returned, the bake raised, or the reroute of one of the object's materials
\* raised), every material that was rerouted has been restored and its set of
\* links is the one it had before the metallic bake type began
C25_AllRestored ==
    MetallicEnded =>
        \A k \in 1..reroutes :
            /\ k <= restores
            /\ LinkSet(graph[matList[k]]) = LinkSet(preGraph[matList[k]])
====
